---- MODULE Spec2Model ----
(***************************************************************************)
(* Model of the instrument drivers of the repository                       *)
(*   src/oscilloscopes/rigol-MSO2102A/oscrigol.py        (class Oscrigol)  *)
(*   src/oscilloscopes/rigol-MSO2102A/oscrigol_pacter.py (oscrigol_pacter) *)
(*   src/spectrometer/hamamatsu-C12880MA/get_spectrum.py (MicroSpec, CLI)  *)
(* Spec: one driver routine runs per behaviour: the user may open the      *)
(* session (initComm) and then call one method or close the session, or    *)
(* call the object itself. SpecCalls: capture calls made one after the     *)
(* other. SpecValues: the sample values of the download routines.          *)
(* SpecCLI: the spectrometer script.                                       *)
(* The instruments and the links are the environment: what they reply is   *)
(* chosen nondeterministically from small sets.                            *)
(***************************************************************************)
EXTENDS Integers, Sequences, FiniteSets, TLC

VARIABLES
    pc,       \* position of the running routine
    routine,  \* name of the routine that was called ("none" before a call)
    open,     \* TRUE while self._osci (self._ser) is an open session
    cmds,     \* every command written to (or queried from) the instrument, in order
    inst,     \* state of the instrument
    self,     \* fields of the driver object (set by __init__ / config)
    loc,      \* arguments and local variables of the running routine
    link,     \* lengths of the binary blocks the link will deliver, in order
    result,   \* value returned by the routine
    err,      \* exception raised by the routine ("" when none)
    sessions, \* number of sessions (VISA or serial) that are open
    calls     \* number of capture calls that have returned to their caller

vars == <<pc, routine, open, cmds, inst, self, loc, link, result, err, sessions, calls>>

----------------------------------------------------------------------------
(* Bounds of the model *)

\* longest scripted sequence of binary blocks the link delivers
MaxScript == 3
\* cap on the read counter `ind` of the accumulation loop
MaxReads == 4
\* most close calls the user makes in a row on one object
MaxCloses == 2
\* most capture calls that return, one after the other
MaxCalls == 2
\* most raw codes accumulated by the read loop when the sample values are followed
MaxRawCodes == 3

----------------------------------------------------------------------------
(* Commands *)

\* one SCPI message: verb, channel number in the verb (0 if none),
\* symbolic argument, numeric argument
Cmd(v, c, s, n) == [verb |-> v, ch |-> c, arg |-> s, num |-> n]

W(v) == Cmd(v, 0, "", 0)
WS(v, s) == Cmd(v, 0, s, 0)
WN(v, n) == Cmd(v, 0, "", n)
WC(v, c, s) == Cmd(v, c, s, 0)

RECURSIVE SumSeq(_)
SumSeq(s) == IF s = <<>> THEN 0 ELSE Head(s) + SumSeq(Tail(s))

Abs(x) == IF x < 0 THEN -x ELSE x

\* verbs of the commands in a log that satisfy a test on the verb
RECURSIVE VerbsIn(_, _)
VerbsIn(log, V) ==
    IF log = <<>> THEN <<>>
    ELSE IF Head(log).verb \in V THEN <<Head(log).verb>> \o VerbsIn(Tail(log), V)
    ELSE VerbsIn(Tail(log), V)

----------------------------------------------------------------------------
(* The instrument *)

\* depth the firmware falls back to when it does not take the requested one
ClampedDepth(n) == IF n = 14000 THEN 7000 ELSE 14000

\* effect of one written command on the instrument; `ok` tells whether the
\* firmware takes a requested memory depth as written
ApplyCmd(i, c, ok) ==
    IF c.verb = ":RUN" THEN [i EXCEPT !.run = "RUN"]
    ELSE IF c.verb = ":STOP" THEN [i EXCEPT !.run = "STOP"]
    ELSE IF c.verb \in {":ACQ:TYPE", ":ACQuire:TYPE"}
        THEN [i EXCEPT !.acqType = IF c.arg \in {"AVER"} THEN "AVER" ELSE "NORM"]
    ELSE IF c.verb = ":ACQ:AVER" THEN [i EXCEPT !.avgCount = c.num]
    ELSE IF c.verb = ":ACQ:MDEP"
        THEN [i EXCEPT !.mdepth = IF ok THEN c.num ELSE ClampedDepth(c.num)]
    ELSE IF c.verb \in {":WAV:SOUR", ":WAVeform:SOURce"} THEN [i EXCEPT !.source = c.ch]
    ELSE IF c.verb = ":CHAN:SCAL" THEN [i EXCEPT !.vscale = c.num]
    ELSE i

RECURSIVE ApplyAll(_, _, _)
ApplyAll(i, log, ok) ==
    IF log = <<>> THEN i ELSE ApplyAll(ApplyCmd(i, Head(log), ok), Tail(log), ok)

----------------------------------------------------------------------------
(* class Oscrigol: operations as the commands they write *)

O_initComm == << WS(":WAV:FORM", "BYTE"), WS(":WAV:MODE", "NORM"), WN(":WAV:POIN", 1400) >>

\* run() that writes nothing
O_runSkipped == <<>>

O_run == << W(":RUN") >>

O_stop == << W(":STOP") >>

O_setSampAcquisition == << WS(":ACQ:TYPE", "NORM") >>

O_setAvgAcquisition(nAvg) == << WS(":ACQ:TYPE", "AVER"), WN(":ACQ:AVER", nAvg) >>

\* averaging counts setAcquisition accepts
O_AvgCounts == {4, 16, 64, 128}

\* setAcquisition that takes every count above 1 as an averaging count
O_setAcquisitionAnyCount(acqMode) ==
    IF acqMode = 1 THEN O_setSampAcquisition
    ELSE IF acqMode > 1 THEN O_setAvgAcquisition(acqMode)
    ELSE <<>>

O_setAcquisition(acqMode) ==
    IF acqMode = 1 THEN O_setSampAcquisition
    ELSE IF acqMode \in O_AvgCounts THEN O_setAvgAcquisition(acqMode)
    ELSE <<>>

O_setEdgeTrigger(source, slope, mode, coupling, level) ==
    << WS(":TRIG:MODE", "EDGE"),
       WS(":TRIG:EDGE:SOUR", source),
       WS(":TRIG:EDGE:SLOP", slope),
       WS(":TRIG:EDGE:COUP", coupling),
       WN(":TRIG:LEV", level),
       WS(":TRIG:MODE", mode) >>

O_setWaveformPointsMode(mode) ==
    << WS(":WAV:POIN:MODE",
          IF mode = "MAX" THEN "MAXimum" ELSE IF mode = "RAW" THEN "RAW" ELSE "NORMal") >>

\* getVertValues up to and including the binary query (mode defaults to 'NORMal',
\* which is no key of valid_modes and so maps to 'NORMal')
\* getVertValues with the acquisition restarted between the preamble query
\* and the data read
O_getVertValuesRestarted(channel) ==
    << WC(":WAV:SOUR", channel, "") >> \o O_setWaveformPointsMode("NORMAL")
    \o << W(":WAV:PRE?"), W(":WAV:POIN?"), W(":RUN"), WS(":WAV:FORM", "BYTE"),
          W(":WAV:DATA?") >>

O_getVertValues(channel) ==
    << WC(":WAV:SOUR", channel, "") >> \o O_setWaveformPointsMode("NORMAL")
    \o << W(":WAV:PRE?"), W(":WAV:POIN?"), WS(":WAV:FORM", "BYTE"), W(":WAV:DATA?") >>

O_getHorValues(channel) ==
    << WC(":WAV:SOUR", channel, "") >> \o O_setWaveformPointsMode("NORMAL")
    \o << W(":WAV:PRE?"), W(":WAV:POIN?") >>

O_getVertScale(channel) == << WC(":CHAN:SCAL?", channel, "") >>

O_setVertScale(channel, vScale) == << Cmd(":CHAN:SCAL", channel, "", vScale) >>

----------------------------------------------------------------------------
(* Oscrigol.download_raw_data: memory-depth selection *)

valid_depths == << 14000, 140000, 1400000, 14000000, 56000000 >>

\* valid_depths / 2, elementwise
HalvedDepths == [k \in DOMAIN valid_depths |-> valid_depths[k] \div 2]

\* number of channels whose :CHAN<n>:DISP? reply is '1'; none falls back to one
ActiveChannels(disp) ==
    LET n == Cardinality({ch \in {1, 2} : disp[ch]})
    IN  IF n = 0 THEN 1 ELSE n

AllowedDepths(active_channels) ==
    IF active_channels = 1 THEN valid_depths ELSE HalvedDepths

\* index of the last occurrence of the minimum
ArgMinLast(s) ==
    CHOOSE k \in DOMAIN s :
        /\ \A j \in DOMAIN s : s[k] <= s[j]
        /\ \A j \in DOMAIN s : j > k => s[j] > s[k]

\* np.argmin: index of the first occurrence of the minimum
ArgMin(s) ==
    CHOOSE k \in DOMAIN s :
        /\ \A j \in DOMAIN s : s[k] <= s[j]
        /\ \A j \in DOMAIN s : j < k => s[j] > s[k]

\* allowed[np.argmin(np.abs(allowed - points))]
SelectDepth(points, active_channels) ==
    LET allowed == AllowedDepths(active_channels)
        dist == [k \in DOMAIN allowed |-> Abs(allowed[k] - points)]
    IN  allowed[ArgMin(dist)]

\* commands of download_raw_data before the read loop
R_detect == << WC(":CHAN:DISP?", 1, ""), WC(":CHAN:DISP?", 2, "") >>

R_configure(mem_depth) ==
    << WS(":ACQ:TYPE", "NORM"), W(":RUN"), WN(":ACQ:MDEP", mem_depth) >>

R_setup(channel, mem_depth) ==
    << W(":STOP"), WC(":WAV:SOUR", channel, ""), WS(":WAV:FORM", "BYTE"),
       WS(":WAV:MODE", "RAW"), WN(":WAV:POIN", mem_depth), WN(":WAV:STAR", 1),
       WN(":WAV:STOP", mem_depth), W(":WAV:RES"), W(":WAV:BEG"), W(":WAV:PRE?") >>

R_read == << W(":WAV:DATA?") >>

R_finish == << W(":RUN") >>

\* download_full_waveform, all of it
F_download(channel) ==
    << W(":STOP"), WS(":ACQuire:TYPE", "NORMal"), WS(":ACQuire:MEMDepth", "LONG"),
       WC(":WAVeform:SOURce", channel, ""), WS(":WAVeform:POINts:MODE", "MAXimum"),
       WS(":WAVeform:FORM", "BYTE"), W(":WAVeform:POINts?"), W(":WAVeform:PREamble?"),
       W(":WAVeform:DATA?"), W(":RUN") >>

----------------------------------------------------------------------------
(* The link: binary blocks *)

\* lengths one binary read can have when `depth` points are asked for
ChunkLens(depth) == {0, depth \div 4, depth \div 2, depth}

RECURSIVE SeqsUpTo(_, _)
SeqsUpTo(S, n) ==
    IF n = 0 THEN {<<>>}
    ELSE LET shorter == SeqsUpTo(S, n - 1)
         IN  shorter \cup {Append(s, x) : s \in {t \in shorter : Len(t) = n - 1}, x \in S}

\* what the link can be scripted to deliver for one transfer of `depth` points:
\* blocks up to the one with which `depth` is reached or exceeded (a script
\* may also end short of it)
Scripts(depth) ==
    { s \in SeqsUpTo(ChunkLens(depth), MaxScript) \ {<<>>} :
        \A k \in 1..(Len(s) - 1) : SumSeq(SubSeq(s, 1, k)) < depth }

\* scripts of non-empty blocks that add up to `depth` exactly, and the script
\* of a single empty block
ExactScripts(depth) ==
    { s \in Scripts(depth) : SumSeq(s) = depth /\ \A k \in DOMAIN s : s[k] > 0 } \cup { <<0>> }

\* length of the next binary block: the next scripted one, nothing once the
\* script is used up
NextBlock(l) == IF l.pos < Len(l.script) THEN l.script[l.pos + 1] ELSE 0

Consume(l) == [l EXCEPT !.pos = IF l.pos < Len(l.script) THEN l.pos + 1 ELSE l.pos]

----------------------------------------------------------------------------
(* class oscrigol_pacter: operations as the commands they write *)

P_initComm == << WS(":WAV:FORM", "BYTE"), WS(":WAV:MODE", "NORM") >>

P_run == << W(":RUN") >>

P_stop == << W(":STOP") >>

P_setSampAcquisition == << WS(":ACQ:TYPE", "NORM") >>

P_setandcheckmdepth(mdepth) == << WN(":ACQ:MDEP", mdepth), W(":ACQ:MDEP?") >>

P_setEdgeTrigger(source, slope, coupling, level) ==
    << WS(":TRIG:MODE", "EDGE"),
       WS(":TRIG:EDG:SOUR", source),
       WS(":TRIG:EDG:SLOP", slope),
       WS(":TRIG:COUP", coupling),
       WN(":TRIG:EDG:LEV", level),
       WS(":TRIG:SWE", "NORMAL") >>

P_setChannel(channel, chanBand, chanCoup, chanInv, chanImp) ==
    << WC(":CHAN:BWL", channel, chanBand), WC(":CHAN:COUP", channel, chanCoup),
       WC(":CHAN:INV", channel, chanInv), WC(":CHAN:IMP", channel, chanImp) >>

RECURSIVE P_setChannels(_, _)
\* the loop of __call__ over range(len(self._channels)), from index k (1-based)
P_setChannels(s, k) ==
    IF k > Len(s.channels) THEN <<>>
    ELSE P_setChannel(s.channels[k], s.chanBand[k], s.chanCoup[k], s.chanInv[k], s.chanImp[k])
         \o P_setChannels(s, k + 1)

P_getVertvalues(channel, mem_depth) ==
    << WC(":WAV:SOUR", channel, ""), WS(":WAV:FORM", "BYTE"), WS(":WAV:MODE", "RAW"),
       WN(":WAV:POIN", mem_depth), WN(":WAV:STAR", 1), WN(":WAV:STOP", mem_depth),
       W(":WAV:RES"), W(":WAV:BEG"), W(":WAV:DATA?"),
       WC(":CHAN:SCAL?", channel, ""), WC(":CHAN:OFFS?", channel, "") >>

\* channel whose data getchannels reads into row k (1-based) of its result:
\* the first row comes from the argument, the others from self._channels
P_rowChannel(channels, selfChannels, k) ==
    IF k = 1 THEN channels[k] ELSE selfChannels[k]

----------------------------------------------------------------------------
(* Data read from the instrument *)

\* channel selected as waveform source at each binary read of a log, in order
RECURSIVE SourcesRead(_, _)
SourcesRead(log, src) ==
    IF log = <<>> THEN <<>>
    ELSE LET c == Head(log)
         IN  IF c.verb \in {":WAV:SOUR", ":WAVeform:SOURce"} THEN SourcesRead(Tail(log), c.ch)
             ELSE IF c.verb \in {":WAV:DATA?", ":WAVeform:DATA?"}
                 THEN <<src>> \o SourcesRead(Tail(log), src)
             ELSE SourcesRead(Tail(log), src)

\* raw codes standing for the content of one downloaded block
Codes == {100, 200}

\* reply of query(): pyvisa returns the reply text, a str
QueryReply(n) == [type |-> "str", n |-> n]

\* Python's v / n for a query reply: str / int raises TypeError
Divide(v, n) == IF v.type = "str" THEN [type |-> "TypeError", n |-> 0]
                ELSE [type |-> "float", n |-> v.n]

----------------------------------------------------------------------------
(* oscrigol_pacter.getHorvalues *)

\* a rational number num/den, den > 0
Frac(n, d) == [num |-> n, den |-> d]

FLess(a, b) == a.num * b.den < b.num * a.den

FEq(a, b) == a.num * b.den = b.num * a.den

FNegHalf(a) == Frac(-a.num, 2 * a.den)

FHalf(a) == Frac(a.num, 2 * a.den)

FMinusInt(a, k) == Frac(a.num - k * a.den, a.den)

\* visible horizontal divisions of the screen
ndiv == 14

\* np.linspace(-T/2, T/2, n) - hoffset, kept as its end points and length
CentredAxis(T, n, hoffset) ==
    [n |-> n, first |-> FMinusInt(FNegHalf(T), hoffset), last |-> FMinusInt(FHalf(T), hoffset)]

\* the test written `Tscreen <= Ttotal`
H_exceedsLE(Tscreen, Ttotal) == ~ FLess(Ttotal, Tscreen)

\* the test `Tscreen < Ttotal`
H_exceeds(Tscreen, Ttotal) == FLess(Tscreen, Ttotal)

getHorvalues(mdepth, hscale, hoffset, Srate) ==
    LET Tscreen == Frac(ndiv * hscale, 1)
        Ttotal == Frac(mdepth, Srate)
    IN  IF H_exceeds(Tscreen, Ttotal)
        THEN [warn |-> TRUE, span |-> Ttotal, axis |-> CentredAxis(Ttotal, mdepth, hoffset)]
        ELSE [warn |-> FALSE, span |-> Tscreen, axis |-> CentredAxis(Tscreen, mdepth, hoffset)]

P_getHorvaluesLog == << W(":TIMebase:SCALe?"), W(":TIMebase:OFFSet?"), W(":ACQuire:SRATe?") >>

----------------------------------------------------------------------------
(* Closing a session *)

\* outcome of a close call on a session handle: whether the handle is open
\* afterwards and the exception raised ("" when none)
CloseOutcome(isOpen, raised) == [open |-> isOpen, err |-> raised]

\* Oscrigol.closeComm with the second close of a VISA session raising
O_closeCommRaising(isOpen) ==
    CloseOutcome(FALSE, IF isOpen THEN "" ELSE "InvalidSession")

\* Oscrigol.closeComm: self._osci.close(), unguarded. The VISA resource
\* closes an open session and ignores the invalid session it finds when it
\* is closed again.
O_closeComm(isOpen) == CloseOutcome(FALSE, "")

\* oscrigol_pacter.closeComm: self._osci.close(); return
P_closeComm(isOpen) == CloseOutcome(FALSE, "")

\* MicroSpec.close with the port never closed
M_closeSkipped(isOpen) == CloseOutcome(isOpen, "")

\* MicroSpec.close: `if self._ser and self._ser.is_open: self._ser.close()`
M_close(isOpen) == IF isOpen THEN CloseOutcome(FALSE, "") ELSE CloseOutcome(isOpen, "")

----------------------------------------------------------------------------
(* Objects and initial state *)

\* Oscrigol.__init__ followed by config(channels, acquisition, vAutoScale)
SelfOscrigol(channels, acquisition, vAutoScale) ==
    [cls |-> "Oscrigol", channels |-> channels, acquisition |-> acquisition,
     vAutoScale |-> vAutoScale, mdepth |-> 0,
     trigSource |-> "CHAN1", trigSlope |-> "POS", trigMode |-> "NORM",
     trigCoup |-> "DC", trigLevel |-> 0,
     chanBand |-> <<"OFF">>, chanCoup |-> <<>>, chanInv |-> <<"OFF">>, chanImp |-> <<>>]

\* oscrigol_pacter.__init__ followed by config(channels, acquisition, mdepth);
\* the trigger level 0.5 V is kept in millivolts
SelfPacter(channels, acquisition, mdepth) ==
    [cls |-> "pacter", channels |-> channels, acquisition |-> acquisition,
     vAutoScale |-> FALSE, mdepth |-> mdepth,
     trigSource |-> "EXT", trigSlope |-> "POS", trigMode |-> "",
     trigCoup |-> "AC", trigLevel |-> 500,
     chanBand |-> <<"ON", "ON">>, chanCoup |-> <<"AC", "DC">>,
     chanInv |-> <<"OFF", "OFF">>, chanImp |-> <<"FIFT", "OMEG">>]

NoObject ==
    [cls |-> "none", channels |-> <<>>, acquisition |-> 0, vAutoScale |-> FALSE, mdepth |-> 0,
     trigSource |-> "", trigSlope |-> "", trigMode |-> "", trigCoup |-> "", trigLevel |-> 0,
     chanBand |-> <<>>, chanCoup |-> <<>>, chanInv |-> <<>>, chanImp |-> <<>>]

\* states the instrument can be found in when a session starts
InstStates ==
    { [run |-> r, acqType |-> a[1], avgCount |-> a[2], mdepth |-> 14000, source |-> src,
       disp |-> d, vscale |-> 1000] :
      r \in {"RUN", "STOP"}, a \in {<<"NORM", 2>>, <<"AVER", 16>>}, src \in {1, 2},
      d \in [{1, 2} -> BOOLEAN] }

NoLink == [script |-> <<>>, pos |-> 0]

NoResult == [kind |-> "none"]

NoV == [len |-> 0, val |-> 0]

Locals(i) ==
    [channel |-> 0, points |-> 0, active_channels |-> 0, mem_depth |-> 0,
     dataY |-> <<>>, ind |-> 0, i |-> 0, count |-> 0, before |-> i,
     channels |-> <<>>, v1 |-> NoV, v2m |-> QueryReply(0), caps |-> <<>>,
     check |-> FALSE, hscale |-> 0, hoffset |-> 0, Srate |-> 1, start |-> 0,
     source |-> "", sdata |-> 0, caught |-> ""]

Init ==
    /\ pc = "idle"
    /\ routine = "none"
    /\ open = FALSE
    /\ cmds = <<>>
    /\ inst \in InstStates
    /\ self = NoObject
    /\ loc = Locals(inst)
    /\ link = NoLink
    /\ result = NoResult
    /\ err = ""
    /\ sessions = 0
    /\ calls = 0

\* a method can be called on an object whose session the user has opened
Callable(cls) == pc = "idle" /\ routine = "none" /\ open /\ self.cls = cls

\* write a log: it is appended to cmds and acts on the instrument
Send(log, ok) ==
    /\ cmds' = cmds \o log
    /\ inst' = ApplyAll(inst, log, ok)

----------------------------------------------------------------------------
(* class Oscrigol: the user's calls *)

\* inputs of the model
O_ChannelConfigs == { <<1>>, <<2>>, <<1, 2>>, <<2, 1>> }

O_AcquisitionConfigs == {1, 3, 4, 128, 256}

AcqInputs == {0, 1, 2, 3, 4, 8, 16, 32, 64, 128, 256, 512, 1024, 2048, 4096, 8192, 16384}

PointsInputs ==
    { 0, 7000, 10000, 14000, 38500, 77000, 100000, 140000, 385000, 770000,
      4200000, 7700000, 14000000, 17500000, 35000000, 60000000 }

\* maximum of |values| met by the autoscale loop, in millivolts
MaxValueInputs == {0, 3500}

\* obj = Oscrigol(); obj.initComm()
O_InitComm ==
    /\ pc = "idle" /\ routine = "none" /\ ~open /\ self.cls = "none"
    /\ self' = SelfOscrigol(<<1>>, 1, FALSE)
    /\ open' = TRUE
    /\ sessions' = sessions + 1
    /\ Send(O_initComm, TRUE)
    /\ loc' = Locals(inst')
    /\ UNCHANGED <<pc, routine, link, result, err, calls>>

\* obj.setAcquisition(count)
O_SetAcquisition ==
    /\ Callable("Oscrigol")
    /\ \E count \in AcqInputs :
        /\ routine' = "setAcquisition"
        /\ loc' = [loc EXCEPT !.count = count, !.before = inst, !.start = Len(cmds)]
        /\ Send(O_setAcquisition(count), TRUE)
        /\ pc' = "done"
        /\ result' = [kind |-> "None"]
        /\ UNCHANGED <<open, self, link, err, sessions, calls>>

\* obj.download_full_waveform(channel): one binary read, then :RUN
O_DownloadFullWaveform ==
    /\ Callable("Oscrigol")
    /\ \E channel \in {1, 2}, npts \in {1400, 14000} :
        /\ routine' = "download_full_waveform"
        /\ loc' = [loc EXCEPT !.channel = channel, !.before = inst, !.start = Len(cmds)]
        /\ Send(F_download(channel), TRUE)
        /\ pc' = "done"
        /\ result' = [kind |-> "tv", tLen |-> npts, vLen |-> npts]
        /\ UNCHANGED <<open, self, link, err, sessions, calls>>

\* obj.download_raw_data(channel, points), up to the preamble query
O_RawStart ==
    /\ Callable("Oscrigol")
    /\ \E channel \in {1, 2}, points \in PointsInputs, ok \in BOOLEAN :
        LET active_channels == ActiveChannels(inst.disp)
            mem_depth == SelectDepth(points, active_channels)
        IN  /\ routine' = "download_raw_data"
            /\ loc' = [loc EXCEPT !.channel = channel, !.points = points,
                                  !.active_channels = active_channels,
                                  !.mem_depth = mem_depth, !.dataY = <<>>, !.ind = 0,
                                  !.before = inst, !.start = Len(cmds)]
            /\ Send(R_detect \o R_configure(mem_depth) \o R_setup(channel, mem_depth), ok)
            /\ \E script \in Scripts(mem_depth) : link' = [script |-> script, pos |-> 0]
            /\ pc' = "raw_read"
            /\ UNCHANGED <<open, self, result, err, sessions, calls>>

\* one turn of `while len(dataY) < int(mem_depth)`
O_RawRead ==
    /\ pc = "raw_read"
    /\ SumSeq(loc.dataY) < loc.mem_depth
    /\ loc.ind < MaxReads
    /\ Send(R_read, TRUE)
    /\ loc' = [loc EXCEPT !.dataY = Append(@, NextBlock(link)), !.ind = @ + 1]
    /\ link' = Consume(link)
    /\ UNCHANGED <<pc, routine, open, self, result, err, sessions, calls>>

\* the loop is left: time axis, :RUN, return
O_RawFinish ==
    /\ pc = "raw_read"
    /\ ~ (SumSeq(loc.dataY) < loc.mem_depth)
    /\ Send(R_finish, TRUE)
    /\ result' = [kind |-> "raw", tLen |-> SumSeq(loc.dataY), vLen |-> SumSeq(loc.dataY),
                  mem_depth |-> loc.mem_depth, active_channels |-> loc.active_channels]
    /\ pc' = "done"
    /\ UNCHANGED <<routine, open, self, loc, link, err, sessions, calls>>

\* obj.config(...); obj(): from initComm to setAcquisition(acqMode=1)
O_CallStart ==
    /\ pc = "idle" /\ routine = "none" /\ self.cls = "none"
    /\ \E channels \in O_ChannelConfigs, acquisition \in O_AcquisitionConfigs,
       vAutoScale \in BOOLEAN :
        LET s == SelfOscrigol(channels, acquisition, vAutoScale)
        IN  /\ self' = s
            /\ routine' = "Oscrigol.__call__"
            /\ open' = TRUE
            /\ sessions' = sessions + 1
            /\ Send(O_initComm
                    \o O_setEdgeTrigger(s.trigSource, s.trigSlope, s.trigMode,
                                        s.trigCoup, s.trigLevel)
                    \o << WC(":CHAN:BWLimit", channels[1], s.chanBand[1]),
                          WC(":CHAN:INV", channels[1], s.chanInv[1]) >>
                    \o O_run \o O_setAcquisition(1), TRUE)
            /\ loc' = [loc EXCEPT !.i = 0, !.before = inst, !.start = 0]
            /\ pc' = IF vAutoScale THEN "o_autoscale" ELSE "o_acquire"
            /\ UNCHANGED <<link, result, err, calls>>

\* one turn of the vertical autoscale loop `for _ in range(2)`
O_CallAutoScale ==
    /\ pc = "o_autoscale"
    /\ loc.i < 2
    /\ \E maxValue \in MaxValueInputs :
        LET ch == self.channels[1]
            vScale == IF maxValue > 0 THEN (maxValue * 10) \div 35 ELSE inst.vscale
        IN  /\ Send(O_setAcquisition(1) \o O_getVertScale(ch) \o O_getVertValues(ch)
                    \o O_setVertScale(ch, vScale), TRUE)
            /\ loc' = [loc EXCEPT !.i = @ + 1]
            /\ pc' = IF loc.i + 1 < 2 THEN "o_autoscale" ELSE "o_acquire"
            /\ UNCHANGED <<routine, open, self, link, result, err, sessions, calls>>

\* the configured acquisition, stop(), getHorValues(self._channels[0])
O_CallAcquire ==
    /\ pc = "o_acquire"
    /\ Send((IF self.acquisition # 1 THEN O_setAcquisition(self.acquisition) ELSE <<>>)
            \o O_stop \o O_getHorValues(self.channels[1]), TRUE)
    /\ loc' = [loc EXCEPT !.i = 1, !.ind = Len(cmds')]
    /\ pc' = "o_vert"
    /\ UNCHANGED <<routine, open, self, link, result, err, sessions, calls>>

\* one turn of `for chNum in self._channels`: getVertValues(chNum), stacked
O_CallVert ==
    /\ pc = "o_vert"
    /\ loc.i <= Len(self.channels)
    /\ Send(O_getVertValues(self.channels[loc.i]), TRUE)
    /\ loc' = [loc EXCEPT !.i = @ + 1]
    /\ UNCHANGED <<pc, routine, open, self, link, result, err, sessions, calls>>

\* Oscrigol.__call__ returning without closeComm()
O_CallFinishNoClose ==
    /\ pc = "o_vert"
    /\ loc.i > Len(self.channels)
    /\ Send(O_run, TRUE)
    /\ result' = [kind |-> "stack",
                  rows |-> <<0>> \o SourcesRead(SubSeq(cmds, loc.ind + 1, Len(cmds)),
                                                inst.source)]
    /\ pc' = "done"
    /\ UNCHANGED <<routine, open, sessions, self, loc, link, err, calls>>

\* run(), closeComm(), return values: row 0 is the time axis (0), the other
\* rows hold the data of the source selected at each binary read
O_CallFinish ==
    /\ pc = "o_vert"
    /\ loc.i > Len(self.channels)
    /\ Send(O_run, TRUE)
    /\ open' = O_closeComm(open).open
    /\ sessions' = sessions - 1
    /\ result' = [kind |-> "stack",
                  rows |-> <<0>> \o SourcesRead(SubSeq(cmds, loc.ind + 1, Len(cmds)),
                                                inst.source)]
    /\ pc' = "done"
    /\ UNCHANGED <<routine, self, loc, link, err, calls>>

----------------------------------------------------------------------------
(* class oscrigol_pacter: the user's calls *)

P_ChannelConfigs == { <<1, 2>>, <<2, 1>>, <<1>> }

P_ChannelArgs == { <<1>>, <<2>>, <<1, 2>>, <<2, 1>> }

P_AcquisitionConfigs == {0, 1, 2, 3}

P_DepthConfigs == {7000, 70000}

\* replies to :TIMebase:SCALe? (ns), :TIMebase:OFFSet? (ns), :ACQuire:SRATe? (samples/ns)
HScaleInputs == {250, 500, 1000, 2000}

HOffsetInputs == {-100, 0, 100}

SrateInputs == {1, 2}

HDepthInputs == {7000, 14000, 70000}

\* commands of getchannels(channels, mdepth) for rows k.. (1-based)
RECURSIVE P_getchannelsRows(_, _, _, _)
P_getchannelsRows(channels, selfChannels, mdepth, k) ==
    IF k > Len(channels) THEN <<>>
    ELSE P_getVertvalues(P_rowChannel(channels, selfChannels, k), mdepth)
         \o P_getchannelsRows(channels, selfChannels, mdepth, k + 1)

\* `self._channels[i]` raises IndexError for a row past the configured list
P_indexError(channels, selfChannels) ==
    \E k \in 2..Len(channels) : k > Len(selfChannels)

P_getchannelsLog(channels, selfChannels, mdepth) ==
    P_stop \o P_getchannelsRows(channels, selfChannels, mdepth, 1)
    \o << WS(":MEASure:VMAX?", "CHANnel2") >> \o P_run

\* obj = oscrigol_pacter(); obj.config(channels, ...); obj.initComm()
P_InitComm ==
    /\ pc = "idle" /\ routine = "none" /\ ~open /\ self.cls = "none"
    /\ \E channels \in P_ChannelConfigs :
        /\ self' = SelfPacter(channels, 1, 70000)
        /\ open' = TRUE
        /\ sessions' = sessions + 1
        /\ Send(P_initComm, TRUE)
        /\ loc' = Locals(inst')
        /\ UNCHANGED <<pc, routine, link, result, err, calls>>

\* obj.config(...); obj(): from initComm to check = setandcheckmdepth(mdepth)
P_CallStart ==
    /\ pc = "idle" /\ routine = "none" /\ self.cls = "none"
    /\ \E channels \in P_ChannelConfigs, acquisition \in P_AcquisitionConfigs,
       mdepth \in P_DepthConfigs, ok \in BOOLEAN :
        LET s == SelfPacter(channels, acquisition, mdepth)
            log == P_initComm
                   \o P_setEdgeTrigger(s.trigSource, s.trigSlope, s.trigCoup, s.trigLevel)
                   \o P_setChannels(s, 1)
                   \o P_run \o P_setSampAcquisition \o P_setandcheckmdepth(mdepth)
            mdepthread == ApplyAll(inst, log, ok).mdepth
            check == mdepthread # mdepth
        IN  /\ self' = s
            /\ routine' = "pacter.__call__"
            /\ Send(log, ok)
            /\ loc' = [loc EXCEPT !.mem_depth = mdepth, !.check = check, !.i = 0,
                                  !.before = inst, !.start = 0]
            /\ open' = TRUE
            /\ sessions' = sessions + 1
            /\ pc' = IF check THEN "p_mismatch" ELSE "p_rep"
            /\ UNCHANGED <<link, result, err, calls>>

\* the mismatch branch going on to the capture repetitions
P_CallMismatchGoesOn ==
    /\ pc = "p_mismatch"
    /\ pc' = "p_rep"
    /\ UNCHANGED <<routine, open, cmds, inst, self, loc, link, result, err, sessions,
                   calls>>

\* `if check:` closeComm(); t = 0; v1 = 0; v2m = 0; return t, v1, v2m
P_CallMismatch ==
    /\ pc = "p_mismatch"
    /\ open' = P_closeComm(open).open
    /\ sessions' = sessions - 1
    /\ result' = [kind |-> "placeholder", t |-> 0, v1 |-> 0, v2m |-> 0]
    /\ pc' = "done"
    /\ UNCHANGED <<routine, cmds, inst, self, loc, link, err, calls>>

\* one turn of `for i in range(int(self._acquisition))`:
\* getchannels((1,), mdepth), accumulated into v1 and v2m
P_CallRep ==
    /\ pc = "p_rep"
    /\ loc.i < self.acquisition
    /\ \E script \in ExactScripts(loc.mem_depth), code \in Codes :
        LET l == [script |-> script, pos |-> 0]
            MV == [len |-> NextBlock(l), val |-> code]
            broadcast == loc.i = 0 \/ loc.v1.len = MV.len
        IN  /\ Send(P_getchannelsLog(<<1>>, self.channels, loc.mem_depth), TRUE)
            /\ link' = Consume(l)
            /\ loc' = [loc EXCEPT
                         !.i = @ + 1,
                         !.dataY = <<MV.len>>,
                         !.caps = Append(@, code),
                         !.v1 = IF loc.i = 0 THEN MV
                                ELSE IF broadcast THEN [len |-> @.len, val |-> @.val + code]
                                ELSE @,
                         !.v2m = QueryReply(loc.i + 1)]
            /\ pc' = IF broadcast THEN "p_rep" ELSE "raised"
            /\ err' = IF broadcast THEN "" ELSE "ValueError"
            /\ UNCHANGED <<routine, open, self, result, sessions, calls>>

\* after the loop: v1 / N, v2m / N, getHorvalues(mdepth), closeComm(), return
P_CallAverage ==
    /\ pc = "p_rep"
    /\ ~ (loc.i < self.acquisition)
    /\ \E hscale \in HScaleInputs, hoffset \in HOffsetInputs, Srate \in SrateInputs :
        LET N == self.acquisition
            v2m == Divide(loc.v2m, N)
            raises == IF N = 0 THEN "UnboundLocalError"
                      ELSE IF v2m.type = "TypeError" THEN "TypeError" ELSE ""
        IN  /\ IF raises # ""
               THEN /\ pc' = "raised"
                    /\ err' = raises
                    /\ UNCHANGED <<open, sessions, cmds, inst, result>>
               ELSE /\ Send(P_getHorvaluesLog, TRUE)
                    /\ open' = P_closeComm(open).open
                    /\ sessions' = sessions - 1
                    /\ result' = [kind |-> "average",
                                  t |-> getHorvalues(loc.mem_depth, hscale, hoffset, Srate),
                                  v1 |-> [len |-> loc.v1.len, sum |-> loc.v1.val, n |-> N],
                                  v2m |-> v2m]
                    /\ pc' = "done"
                    /\ err' = ""
            /\ UNCHANGED <<routine, self, loc, link, calls>>

\* obj.getchannels(channels, mdepth) on an open session
P_GetChannels ==
    /\ Callable("pacter")
    /\ \E channels \in P_ChannelArgs, mdepth \in {7000},
       blocks \in [1..2 -> ChunkLens(7000) \ {0}] :
        LET log == P_getchannelsLog(channels, self.channels, mdepth)
            stacked == Len(channels) = 1 \/ blocks[1] = blocks[2]
        IN  /\ routine' = "getchannels"
            /\ loc' = [loc EXCEPT !.channels = channels, !.mem_depth = mdepth,
                                  !.before = inst, !.start = Len(cmds)]
            /\ IF P_indexError(channels, self.channels)
               THEN /\ Send(P_stop \o P_getVertvalues(channels[1], mdepth), TRUE)
                    /\ pc' = "raised"
                    /\ err' = "IndexError"
                    /\ result' = result
               ELSE IF ~stacked
               THEN /\ Send(P_stop \o P_getchannelsRows(channels, self.channels, mdepth, 1),
                            TRUE)
                    /\ pc' = "raised"
                    /\ err' = "ValueError"
                    /\ result' = result
               ELSE /\ Send(log, TRUE)
                    /\ pc' = "done"
                    /\ err' = ""
                    /\ result' = [kind |-> "getchannels",
                                  rows |-> SourcesRead(log, inst.source),
                                  V2MAX |-> QueryReply(1)]
            /\ UNCHANGED <<open, self, link, sessions, calls>>

\* obj.getHorvalues(mdepth) on an open session
P_GetHorvalues ==
    /\ Callable("pacter")
    /\ \E mdepth \in HDepthInputs, hscale \in HScaleInputs, hoffset \in HOffsetInputs,
       Srate \in SrateInputs :
        /\ routine' = "getHorvalues"
        /\ loc' = [loc EXCEPT !.mem_depth = mdepth, !.hscale = hscale, !.hoffset = hoffset,
                              !.Srate = Srate, !.before = inst, !.start = Len(cmds)]
        /\ Send(P_getHorvaluesLog, TRUE)
        /\ result' = [kind |-> "axis"] @@ getHorvalues(mdepth, hscale, hoffset, Srate)
        /\ pc' = "done"
        /\ UNCHANGED <<open, self, link, err, sessions, calls>>

----------------------------------------------------------------------------

----------------------------------------------------------------------------
(* class Oscrigol: conversion of the raw codes into volts. Values are      *)
(* integers in a fixed small unit; a preamble is what the instrument means *)
(* by its reply, the reply is the list `.split(',')` gives.                *)

\* preambles the instrument holds: vertical increment, origin and reference,
\* with a horizontal increment and origin that differ from them
Preambles ==
    { [xinc |-> 2, xorig |-> -7, xref |-> 0, yinc |-> yi, yorig |-> yo, yref |-> yr] :
      yi \in {1, 40}, yo \in {0, -500}, yr \in {127, 128} }

\* reply to :WAV:PRE?, fields 0..9: format, type, points, count, xincrement,
\* xorigin, xreference, yincrement, yorigin, yreference
PreambleReply(p, npts) ==
    << 0, 0, npts, 1, p.xinc, p.xorig, p.xref, p.yinc, p.yorig, p.yref >>

\* python's preamble[k], counted from 0
Field(preamble, k) == preamble[k + 1]

\* 8-bit codes of a binary block
RawCodes == {0, 127, 128, 255}

\* binary blocks delivered by one :WAV:DATA? read
RawBlocks == UNION { [1..n -> RawCodes] : n \in 1..2 }

\* the conversion with origin and reference taken from each other's field
O_convertSwapped(raw, preamble) ==
    [ i \in 1..Len(raw) |->
        (raw[i] - Field(preamble, 8)) * Field(preamble, 7) + Field(preamble, 9) ]

\* yinc, yorig, yref = preamble[7], preamble[8], preamble[9];
\* dataY = (raw - yref) * yinc + yorig, element by element
O_convert(raw, preamble) ==
    [ i \in 1..Len(raw) |->
        (raw[i] - Field(preamble, 9)) * Field(preamble, 7) + Field(preamble, 8) ]

Converted(name, p, raw, values) ==
    [kind |-> name, preamble |-> p, raw |-> raw, values |-> values]

\* obj.getVertValues(channel): one preamble query, one block, converted
O_GetVertValues ==
    /\ pc = "idle" /\ routine = "none"
    /\ \E p \in Preambles, raw \in RawBlocks :
        /\ routine' = "getVertValues"
        /\ result' = Converted("values", p, raw, O_convert(raw, PreambleReply(p, Len(raw))))
        /\ pc' = "done"
    /\ UNCHANGED <<open, cmds, inst, self, loc, link, err, sessions, calls>>

\* obj.download_full_waveform(channel): the values of its single block
O_FullValues ==
    /\ pc = "idle" /\ routine = "none"
    /\ \E p \in Preambles, raw \in RawBlocks :
        /\ routine' = "download_full_waveform"
        /\ result' = Converted("values", p, raw, O_convert(raw, PreambleReply(p, Len(raw))))
        /\ pc' = "done"
    /\ UNCHANGED <<open, cmds, inst, self, loc, link, err, sessions, calls>>

\* obj.download_raw_data(channel, points): the preamble is read once, before
\* the read loop
O_RawValuesStart ==
    /\ pc = "idle" /\ routine = "none"
    /\ \E p \in Preambles :
        /\ routine' = "download_raw_data"
        /\ result' = Converted("values", p, <<>>, <<>>)
        /\ pc' = "raw_values"
    /\ UNCHANGED <<open, cmds, inst, self, loc, link, err, sessions, calls>>

\* one turn of the read loop: the block is converted with the preamble read
\* before the loop and appended to dataY
O_RawValuesRead ==
    /\ pc = "raw_values"
    /\ \E raw \in RawBlocks :
        /\ Len(result.raw) + Len(raw) <= MaxRawCodes
        /\ result' = [result EXCEPT
                        !.raw = @ \o raw,
                        !.values = @ \o O_convert(raw, PreambleReply(result.preamble, 0))]
    /\ UNCHANGED <<pc, routine, open, cmds, inst, self, loc, link, err, sessions, calls>>

\* the read loop is left
O_RawValuesFinish ==
    /\ pc = "raw_values"
    /\ result.raw # <<>>
    /\ pc' = "done"
    /\ UNCHANGED <<routine, open, cmds, inst, self, loc, link, result, err, sessions, calls>>

----------------------------------------------------------------------------
(* Closing a session: the user's calls *)

\* the close call `outcome`, made by the user on the object of class cls
UserClose(cls, outcome) ==
    /\ pc = "idle" /\ routine \in {"none", "close"} /\ self.cls = cls
    /\ loc.count < MaxCloses
    /\ routine' = "close"
    /\ loc' = [loc EXCEPT !.count = @ + 1]
    /\ open' = outcome.open
    /\ sessions' = IF open /\ ~outcome.open THEN sessions - 1 ELSE sessions
    /\ err' = outcome.err
    /\ pc' = IF outcome.err = "" THEN "idle" ELSE "raised"
    /\ UNCHANGED <<cmds, inst, self, link, result, calls>>

\* obj.closeComm() on an Oscrigol whose session was opened by initComm
O_CloseComm == UserClose("Oscrigol", O_closeComm(open))

\* obj.closeComm() on an oscrigol_pacter whose session was opened by initComm
P_CloseComm == UserClose("pacter", P_closeComm(open))

----------------------------------------------------------------------------
(* class MicroSpec: the user's calls *)

SelfMicroSpec == [NoObject EXCEPT !.cls = "MicroSpec"]

\* serial.Serial(port, baudrate=115200, timeout=1) opens the port or raises
SerialOpens == BOOLEAN

\* spec = MicroSpec(port)
M_Init ==
    /\ pc = "idle" /\ routine = "none" /\ ~open /\ self.cls = "none"
    /\ \E ok \in SerialOpens :
        IF ok
        THEN /\ self' = SelfMicroSpec
             /\ open' = TRUE
             /\ sessions' = sessions + 1
             /\ UNCHANGED <<pc, err>>
        ELSE /\ pc' = "raised"
             /\ err' = "SerialException"
             /\ UNCHANGED <<self, open, sessions>>
    /\ loc' = Locals(inst)
    /\ UNCHANGED <<routine, cmds, inst, link, result, calls>>

\* spec.close()
M_Close == UserClose("MicroSpec", M_close(open))

----------------------------------------------------------------------------
(* get_spectrum.py run as a script: one action per step of the try block, *)
(* then the except clauses and the finally block                          *)

\* choices of the `source` argument
Sources == {"laser", "led", "ext"}

\* source.upper()
Upper(source) ==
    CASE source = "laser" -> "LASER"
      [] source = "led" -> "LED"
      [] source = "ext" -> "EXT"

\* MicroSpec.set_integration_time(seconds)
M_set_integration_time == << W("SPEC.INTEG") >>

\* MicroSpec.start_source(source) and MicroSpec.stop_source(source)
M_start_source(source) == << W(Upper(source) \o ".START") >>
M_stop_source(source) == << W(Upper(source) \o ".STOP") >>

\* self._ser.write(...) succeeds or raises
WriteOutcomes == {"", "SerialException"}

\* self._ser.readline() returns a line of integers, an empty line after the
\* one second timeout, a line that int() rejects, or raises
ReadlineOutcomes == {"data", "empty", "garbled", "SerialException"}

\* number of integers of the spectrum line
SpectrumLengths == {288, 100}

\* the calibration, plot and save steps succeed or raise
ProcessOutcomes == {"", "OSError", "KeyboardInterrupt"}

\* exception raised by MicroSpec.read for a reply of readline ("" when none)
M_readRaises(reply) ==
    CASE reply = "data" -> ""
      [] reply = "empty" -> "SerialTimeoutException"
      [] reply = "garbled" -> "ValueError"
      [] reply = "SerialException" -> "SerialException"

\* the except clause that catches e, in the order the clauses are written;
\* SerialTimeoutException is a subclass of SerialException ("" when none does)
CLI_handler(e) ==
    IF e \in {"SerialException", "SerialTimeoutException"} THEN "SerialException"
    ELSE IF e \in {"ValueError", "OSError"} THEN "Exception"
    ELSE ""

\* raise e inside the try block
CLI_Raise(e) ==
    /\ err' = e
    /\ pc' = "cli_except"

\* `spec = None`, then `spec = MicroSpec(port)`
CLI_Start ==
    /\ pc = "idle" /\ routine = "none" /\ ~open /\ self.cls = "none"
    /\ \E source \in Sources, ok \in SerialOpens :
        /\ routine' = "get_spectrum"
        /\ loc' = [Locals(inst) EXCEPT !.source = source]
        /\ IF ok
           THEN /\ self' = SelfMicroSpec
                /\ open' = TRUE
                /\ sessions' = sessions + 1
                /\ pc' = "cli_integ"
                /\ err' = err
           ELSE /\ CLI_Raise("SerialException")
                /\ UNCHANGED <<self, open, sessions>>
    /\ UNCHANGED <<cmds, inst, link, result, calls>>

\* spec.set_integration_time(integration_time)
CLI_SetIntegrationTime ==
    /\ pc = "cli_integ"
    /\ \E w \in WriteOutcomes :
        IF w = ""
        THEN /\ cmds' = cmds \o M_set_integration_time
             /\ pc' = IF loc.source # "ext" THEN "cli_source" ELSE "cli_read"
             /\ err' = err
        ELSE /\ CLI_Raise(w)
             /\ cmds' = cmds
    /\ UNCHANGED <<routine, open, inst, self, loc, link, result, sessions, calls>>

\* `if source != 'ext': spec.start_source(source)`
CLI_StartSource ==
    /\ pc = "cli_source"
    /\ \E w \in WriteOutcomes :
        IF w = ""
        THEN /\ cmds' = cmds \o M_start_source(loc.source)
             /\ pc' = "cli_read"
             /\ err' = err
        ELSE /\ CLI_Raise(w)
             /\ cmds' = cmds
    /\ UNCHANGED <<routine, open, inst, self, loc, link, result, sessions, calls>>

\* spec.read(), first half: SPEC.READ? and its reply
CLI_ReadSpectrum ==
    /\ pc = "cli_read"
    /\ \E w \in WriteOutcomes, reply \in ReadlineOutcomes, n \in SpectrumLengths :
        IF w # ""
        THEN /\ CLI_Raise(w)
             /\ UNCHANGED <<cmds, loc>>
        ELSE /\ cmds' = Append(cmds, W("SPEC.READ?"))
             /\ IF M_readRaises(reply) = ""
                THEN /\ loc' = [loc EXCEPT !.sdata = n]
                     /\ pc' = "cli_timing"
                     /\ err' = err
                ELSE /\ CLI_Raise(M_readRaises(reply))
                     /\ loc' = loc
    /\ UNCHANGED <<routine, open, inst, self, link, result, sessions, calls>>

\* spec.read(), second half: SPEC.TIMING? and its reply
CLI_ReadTiming ==
    /\ pc = "cli_timing"
    /\ \E w \in WriteOutcomes, reply \in ReadlineOutcomes :
        IF w # ""
        THEN /\ CLI_Raise(w)
             /\ cmds' = cmds
        ELSE /\ cmds' = Append(cmds, W("SPEC.TIMING?"))
             /\ IF M_readRaises(reply) = ""
                THEN /\ pc' = IF loc.source # "ext" THEN "cli_stop" ELSE "cli_process"
                     /\ err' = err
                ELSE CLI_Raise(M_readRaises(reply))
    /\ UNCHANGED <<routine, open, inst, self, loc, link, result, sessions, calls>>

\* `if source != 'ext': spec.stop_source(source)`
CLI_StopSource ==
    /\ pc = "cli_stop"
    /\ \E w \in WriteOutcomes :
        IF w = ""
        THEN /\ cmds' = cmds \o M_stop_source(loc.source)
             /\ pc' = "cli_process"
             /\ err' = err
        ELSE /\ CLI_Raise(w)
             /\ cmds' = cmds
    /\ UNCHANGED <<routine, open, inst, self, loc, link, result, sessions, calls>>

\* calibration, plot and save of the spectrum
CLI_Process ==
    /\ pc = "cli_process"
    /\ \E e \in ProcessOutcomes :
        IF e = ""
        THEN /\ result' = [kind |-> "file", rows |-> loc.sdata]
             /\ pc' = "cli_finally"
             /\ err' = err
        ELSE /\ CLI_Raise(e)
             /\ result' = result
    /\ UNCHANGED <<routine, open, cmds, inst, self, loc, link, sessions, calls>>

\* the except clauses: the first that matches prints its message
CLI_Except ==
    /\ pc = "cli_except"
    /\ loc' = [loc EXCEPT !.caught = CLI_handler(err)]
    /\ pc' = "cli_finally"
    /\ UNCHANGED <<routine, open, cmds, inst, self, link, result, err, sessions, calls>>

\* finally: `if spec: spec.close()`; an exception no clause caught goes on
CLI_Finally ==
    /\ pc = "cli_finally"
    /\ LET outcome == IF self.cls = "MicroSpec" THEN M_close(open)
                      ELSE CloseOutcome(open, "")
       IN  /\ open' = outcome.open
           /\ sessions' = IF open /\ ~outcome.open THEN sessions - 1 ELSE sessions
    /\ pc' = IF err # "" /\ loc.caught = "" THEN "raised" ELSE "done"
    /\ UNCHANGED <<routine, cmds, inst, self, loc, link, result, err, calls>>

Next ==
    \/ O_InitComm
    \/ O_SetAcquisition
    \/ O_DownloadFullWaveform
    \/ O_RawStart
    \/ O_RawRead
    \/ O_RawFinish
    \/ O_CallStart
    \/ O_CallAutoScale
    \/ O_CallAcquire
    \/ O_CallVert
    \/ O_CallFinish
    \/ P_InitComm
    \/ P_CallStart
    \/ P_CallMismatch
    \/ P_CallRep
    \/ P_CallAverage
    \/ P_GetChannels
    \/ P_GetHorvalues
    \/ O_CloseComm
    \/ P_CloseComm
    \/ M_Init
    \/ M_Close

Spec == Init /\ [][Next]_vars

\* one initial state: the oscilloscope is found stopped, in normal
\* acquisition, with both channels displayed
InitOne ==
    /\ Init
    /\ inst.run = "STOP" /\ inst.acqType = "NORM" /\ inst.source = 1
    /\ inst.disp = [c \in {1, 2} |-> TRUE]

NextCLI ==
    \/ CLI_Start
    \/ CLI_SetIntegrationTime
    \/ CLI_StartSource
    \/ CLI_ReadSpectrum
    \/ CLI_ReadTiming
    \/ CLI_StopSource
    \/ CLI_Process
    \/ CLI_Except
    \/ CLI_Finally

\* the spectrometer script, from its start to its end; the oscilloscope
\* takes no part in it
SpecCLI == InitOne /\ [][NextCLI]_vars

\* the sample values of the three download routines of Oscrigol, each for
\* every preamble and every block of raw codes of the model
NextValues ==
    \/ O_GetVertValues
    \/ O_FullValues
    \/ O_RawValuesStart
    \/ O_RawValuesRead
    \/ O_RawValuesFinish

SpecValues == InitOne /\ [][NextValues]_vars

\* a capture call has returned: the caller has its values and may call again,
\* the same object reconfigured or another one
CaptureCalls == {"Oscrigol.__call__", "pacter.__call__"}

Return ==
    /\ pc = "done" /\ routine \in CaptureCalls
    /\ calls < MaxCalls
    /\ calls' = calls + 1
    /\ pc' = "idle"
    /\ routine' = "none"
    /\ self' = NoObject
    /\ cmds' = <<>>
    /\ loc' = Locals(inst)
    /\ link' = NoLink
    /\ result' = NoResult
    /\ UNCHANGED <<open, inst, err, sessions>>

\* sequences of capture calls, each started when the one before has returned
NextCalls ==
    \/ O_CallStart
    \/ O_CallAutoScale
    \/ O_CallAcquire
    \/ O_CallVert
    \/ O_CallFinish
    \/ P_CallStart
    \/ P_CallMismatch
    \/ P_CallRep
    \/ P_CallAverage
    \/ Return

SpecCalls == InitOne /\ [][NextCalls]_vars

----------------------------------------------------------------------------
(* Properties *)

\* commands written by the running routine itself
Own == SubSeq(cmds, loc.start + 1, Len(cmds))

RunStopOf(log) == VerbsIn(log, {":RUN", ":STOP"})

LastRunStop(log) ==
    LET rs == RunStopOf(log) IN IF rs = <<>> THEN "" ELSE rs[Len(rs)]

SingleDepths == {14000, 140000, 1400000, 14000000, 56000000}

DualDepths == {7000, 70000, 700000, 7000000, 28000000}

\* C1: in download_raw_data the selected memory depth belongs to the
\* single-channel set when one channel is displayed (or none, counted as one)
\* and to the halved set otherwise; no allowed depth is closer to the request;
\* of two equally close depths the lower is selected; 100000 points give
\* 140000 with one channel and 70000 with two.
C1_DepthSelection ==
    routine = "download_raw_data" =>
        LET shown == Cardinality({ch \in {1, 2} : loc.before.disp[ch]})
            a == loc.active_channels
            m == loc.mem_depth
            p == loc.points
            S == IF a = 1 THEN SingleDepths ELSE DualDepths
        IN  /\ a = (IF shown = 0 THEN 1 ELSE shown)
            /\ m \in S
            /\ \A d \in S : Abs(m - p) <= Abs(d - p)
            /\ \A d \in S : Abs(d - p) = Abs(m - p) => m <= d
            /\ (p = 100000 /\ a = 1) => m = 140000
            /\ (p = 100000 /\ a = 2) => m = 70000
            /\ \E k \in DOMAIN Own : Own[k].verb = ":ACQ:MDEP" /\ Own[k].num = m

\* a request half way between 7000 and 70000 with both channels displayed
C1_Witness ==
    /\ routine = "download_raw_data"
    /\ loc.points = 38500
    /\ loc.active_channels = 2
    /\ loc.mem_depth = 7000

\* the depth the routine has written with :ACQ:MDEP (0 if none yet)
WrittenDepth ==
    LET ks == {k \in DOMAIN Own : Own[k].verb = ":ACQ:MDEP"}
    IN  IF ks = {} THEN 0 ELSE Own[CHOOSE k \in ks : \A j \in ks : j <= k].num

ReadBack ==
    \E k \in DOMAIN Own, j \in DOMAIN Own :
        k < j /\ Own[k].verb = ":ACQ:MDEP" /\ Own[j].verb = ":ACQ:MDEP?"

\* C2: every capture routine that sets the memory depth reads it back after
\* writing it, and when the instrument holds another depth than the written
\* one the routine ends with a ConfigMismatch error, not with a return value.
C2_ConfigMismatch ==
    (routine \in {"download_raw_data", "pacter.__call__"} /\ WrittenDepth # 0) =>
        /\ ReadBack
        /\ (inst.mdepth # WrittenDepth /\ pc \in {"done", "raised"})
              => (pc = "raised" /\ err = "ConfigMismatch")

\* the link is scripted to deliver non-empty blocks that add up to the depth
ScriptExact ==
    /\ link.script # <<>>
    /\ \A k \in DOMAIN link.script : link.script[k] > 0
    /\ SumSeq(link.script) = loc.mem_depth

\* C3: when the link delivers non-empty blocks adding up to the memory depth,
\* the downloader has read and appended all of them in order when its download
\* is over, and the sample buffer (and the time axis) has exactly that length.
C3_ChunkedAccumulation ==
    /\ (routine = "download_raw_data" /\ pc = "done" /\ ScriptExact) =>
          /\ loc.dataY = link.script
          /\ result.vLen = loc.mem_depth
          /\ result.tLen = loc.mem_depth
    /\ (routine = "pacter.__call__" /\ loc.i > 0 /\ ScriptExact) =>
          /\ loc.dataY = link.script
          /\ SumSeq(loc.dataY) = loc.mem_depth

\* an empty block was read while the buffer was still short of the depth
EmptyReadWhileShort ==
    \E k \in DOMAIN loc.dataY :
        loc.dataY[k] = 0 /\ SumSeq(SubSeq(loc.dataY, 1, k)) < loc.mem_depth

\* C4: once a binary read has returned nothing while the buffer is short of the
\* memory depth, download_raw_data has stopped with IncompleteTransfer.
C4_IncompleteTransfer ==
    (routine = "download_raw_data" /\ EmptyReadWhileShort) =>
        (pc = "raised" /\ err = "IncompleteTransfer")

TriggerVerbs ==
    {":TRIG:MODE", ":TRIG:EDGE:SOUR", ":TRIG:EDG:SOUR", ":TRIG:EDGE:SLOP", ":TRIG:EDG:SLOP",
     ":TRIG:EDGE:COUP", ":TRIG:COUP", ":TRIG:LEV", ":TRIG:EDG:LEV", ":TRIG:SWE"}

TriggerRole(verb) ==
    IF verb = ":TRIG:MODE" THEN "mode"
    ELSE IF verb \in {":TRIG:EDGE:SOUR", ":TRIG:EDG:SOUR"} THEN "source"
    ELSE IF verb \in {":TRIG:EDGE:SLOP", ":TRIG:EDG:SLOP"} THEN "slope"
    ELSE IF verb \in {":TRIG:EDGE:COUP", ":TRIG:COUP"} THEN "coupling"
    ELSE IF verb \in {":TRIG:LEV", ":TRIG:EDG:LEV"} THEN "level"
    ELSE "sweep"

TriggerRoles ==
    LET vs == VerbsIn(Own, TriggerVerbs) IN [k \in DOMAIN vs |-> TriggerRole(vs[k])]

\* C5: in both classes the trigger commands of a call are, in this order, the
\* trigger mode, the source, the slope, the coupling, the level and last the
\* sweep mode.
C5_TriggerOrder ==
    routine \in {"Oscrigol.__call__", "pacter.__call__"} =>
        TriggerRoles = << "mode", "source", "slope", "coupling", "level", "sweep" >>

\* C5 for oscrigol_pacter alone
C5_PacterTriggerOrder ==
    routine = "pacter.__call__" =>
        TriggerRoles = << "mode", "source", "slope", "coupling", "level", "sweep" >>

\* setAcquisition(count) when `Averaging` are the counts that switch to averaging
AcquisitionContract(Averaging) ==
    (routine = "setAcquisition" /\ pc = "done") =>
        LET c == loc.count
        IN  /\ c = 1 =>
                /\ Own = << WS(":ACQ:TYPE", "NORM") >>
                /\ inst = [loc.before EXCEPT !.acqType = "NORM"]
            /\ c \in Averaging =>
                /\ inst = [loc.before EXCEPT !.acqType = "AVER", !.avgCount = c]
            /\ (c # 1 /\ c \notin Averaging) =>
                /\ Own = <<>>
                /\ inst = loc.before

\* C6 (as amended): setAcquisition(1) selects the normal acquisition type; a
\* count in {4, 16, 64, 128} selects averaging with that count; any other
\* count, 256 to 8192 included, sends nothing and leaves the instrument as it was.
C6_SetAcquisition == AcquisitionContract({4, 16, 64, 128})

\* C6 as claimed: the averaging counts are {4, 16, 64, ..., 8192}
C6_SetAcquisitionClaimed ==
    AcquisitionContract({4, 16, 64, 128, 256, 512, 1024, 2048, 4096, 8192})

\* an instrument in normal mode switched to 64 averages
C6_Witness ==
    /\ routine = "setAcquisition" /\ pc = "done"
    /\ loc.count = 64
    /\ loc.before.acqType = "NORM"
    /\ inst.acqType = "AVER" /\ inst.avgCount = 64

\* C7: when a capture routine has returned, the last of the :RUN/:STOP
\* commands it has written is :RUN and the instrument is running; the same holds
\* when oscrigol_pacter.__call__ leaves after its last capture cycle.
C7_ReturnedToRun ==
    /\ (pc = "done" /\ routine \in {"Oscrigol.__call__", "download_full_waveform",
                                    "download_raw_data", "pacter.__call__", "getchannels"})
          => (LastRunStop(Own) = ":RUN" /\ inst.run = "RUN")
    /\ (routine = "pacter.__call__" /\ pc = "raised")
          => (LastRunStop(Own) = ":RUN" /\ inst.run = "RUN")

\* Oscrigol.__call__ has returned a stack of two channels
C7_Witness ==
    /\ routine = "Oscrigol.__call__" /\ pc = "done"
    /\ Len(result.rows) = 3
    /\ RunStopOf(Own) = << ":RUN", ":STOP", ":RUN" >>

\* C8: for N >= 1 configured repetitions, once the N capture cycles are over
\* oscrigol_pacter.__call__ returns the sum of the N per-repetition results
\* divided by N, for the channel values and for the channel-2 maximum.
C8_Averaging ==
    (routine = "pacter.__call__" /\ ~loc.check /\ self.acquisition >= 1
       /\ loc.i = self.acquisition /\ pc # "p_rep" /\ err # "ValueError") =>
        /\ pc = "done"
        /\ Len(RunStopOf(Own)) = 1 + 2 * self.acquisition
        /\ result.v1.sum = SumSeq(loc.caps) /\ result.v1.n = self.acquisition
        /\ result.v2m.type = "float"

\* C9: the rows of a multi-channel capture are the requested channels, once
\* each and in the requested order (after the time axis in Oscrigol.__call__);
\* for getchannels the requested channels are those of its argument.
C9_ChannelOrder ==
    /\ (routine = "getchannels" /\ pc = "done") => result.rows = loc.channels
    /\ (routine = "Oscrigol.__call__" /\ pc = "done") => result.rows = <<0>> \o self.channels

\* C9 for Oscrigol.__call__ alone
C9_OscrigolChannelOrder ==
    (routine = "Oscrigol.__call__" /\ pc = "done") => result.rows = <<0>> \o self.channels

\* C10: getHorvalues warns and spans mdepth / Srate exactly when 14 * hscale is
\* strictly less than mdepth / Srate; otherwise, equality included, it does not
\* warn and spans 14 * hscale; the axis has mdepth samples whose first and last
\* are span apart and symmetric about -hoffset.
C10_HorizontalTransform ==
    (routine = "getHorvalues" /\ pc = "done") =>
        LET exceeds == 14 * loc.hscale * loc.Srate < loc.mem_depth
            equal == 14 * loc.hscale * loc.Srate = loc.mem_depth
            span == result.span
            first == result.axis.first
            last == result.axis.last
        IN  /\ result.warn <=> exceeds
            /\ exceeds => span.num * loc.Srate = loc.mem_depth * span.den
            /\ ~exceeds => span.num = 14 * loc.hscale * span.den
            /\ equal => (~result.warn /\ span.num = 14 * loc.hscale * span.den)
            /\ result.axis.n = loc.mem_depth
            /\ first.num * last.den + last.num * first.den
                 = -2 * loc.hoffset * first.den * last.den
            /\ (last.num * first.den - first.num * last.den) * span.den
                 = span.num * first.den * last.den

\* 14000 samples at 1 sample/ns with 1000 ns per division: both durations are 14000 ns
C10_Witness ==
    /\ routine = "getHorvalues" /\ pc = "done"
    /\ loc.mem_depth = 14000 /\ loc.hscale = 1000 /\ loc.Srate = 1
    /\ ~result.warn
    /\ result.span = Frac(14000, 1)

\* C11: closing is idempotent. After any number of close calls (MicroSpec.close,
\* Oscrigol.closeComm, oscrigol_pacter.closeComm) on a session that was opened,
\* the second call on the closed session included, the session is closed, no
\* session is left open, and no close call has raised.
C11_CloseIdempotent ==
    (routine = "close") =>
        /\ ~open
        /\ sessions = 0
        /\ err = ""
        /\ pc = "idle"

C11_Witness ==
    /\ routine = "close"
    /\ loc.count = 2
    /\ self.cls = "pacter"
    /\ ~open
    /\ err = ""

C13_VerticalTransform ==
    (result.kind = "values") =>
        LET p == result.preamble
            raw == result.raw
            v == result.values
        IN  /\ Len(v) = Len(raw)
            /\ \A i \in 1..Len(raw) :
                /\ v[i] = (raw[i] - p.yref) * p.yinc + p.yorig
                /\ (raw[i] = p.yref) => (v[i] = p.yorig)
                /\ (raw[i] = 127 /\ p.yref = 127 /\ p.yorig = 0) => (v[i] = 0)

C13_Witness ==
    /\ result.kind = "values"
    /\ routine = "download_raw_data"
    /\ pc = "done"
    /\ result.raw = <<127, 255, 0>>
    /\ result.preamble.yref = 127 /\ result.preamble.yorig = 0 /\ result.preamble.yinc = 40
    /\ result.values = <<0, 5120, -5080>>

\* C14: across a sequence of capture calls that return to their caller, at
\* most one instrument session is open at any time, a call that is under way
\* has its session open, a call that has returned has closed the session it
\* opened (no session is open between calls), and commands are written only
\* in steps that start or end with the call's session open.
C14_OneSession ==
    /\ sessions <= 1
    /\ (routine \in CaptureCalls /\ pc \notin {"done", "raised"}) => (open /\ sessions = 1)
    /\ (routine \in CaptureCalls /\ pc = "done") => (~open /\ sessions = 0)
    /\ (routine = "none") => (~open /\ sessions = 0)

C14_WritesWhileOpen ==
    [][ (cmds' # cmds /\ cmds' # <<>>) => (open \/ open') ]_vars

C14_SessionOwnership == []C14_OneSession /\ C14_WritesWhileOpen

C14_Witness ==
    /\ calls = 2
    /\ routine = "Oscrigol.__call__"
    /\ pc = "done"
    /\ Len(cmds) > 0
    /\ ~open
    /\ sessions = 0

\* binary data reads, preamble queries, and the commands that start a new
\* acquisition or change the acquisition type, the memory depth or a scale
DataVerbs == {":WAV:DATA?", ":WAVeform:DATA?"}

PreambleVerbs == {":WAV:PRE?", ":WAVeform:PREamble?"}

Disturbing ==
    {":RUN", ":ACQ:TYPE", ":ACQuire:TYPE", ":ACQ:AVER", ":ACQ:MDEP", ":ACQuire:MEMDepth",
     ":CHAN:SCAL", ":CHAN:OFFS", ":TIM:SCAL", ":TIM:OFFS"}

DataReads(log) == { j \in 1..Len(log) : log[j].verb \in DataVerbs }

\* position of the last command with a verb of V before position j (0: none)
LastBefore(log, j, V) ==
    LET K == { k \in 1..(j - 1) : log[k].verb \in V }
    IN  IF K = {} THEN 0 ELSE CHOOSE k \in K : \A m \in K : m <= k

\* position of the first command with a verb of V after position j (0: none)
FirstAfter(log, j, V) ==
    LET K == { k \in (j + 1)..Len(log) : log[k].verb \in V }
    IN  IF K = {} THEN 0 ELSE CHOOSE k \in K : \A m \in K : k <= m

\* no disturbing command at the positions a..b
Quiet(log, a, b) == \A m \in a..b : log[m].verb \notin Disturbing

\* the last of :RUN and :STOP written up to position k is :STOP
StoppedAt(log, k) == LastRunStop(SubSeq(log, 1, k)) = ":STOP"

\* the data read at position j has its calibration queried next to it:
\* Oscrigol converts with the preamble queried last before the read,
\* oscrigol_pacter with the scale and the offset queried first after it
CalibratedInPlace(log, j) ==
    IF self.cls = "pacter"
    THEN LET sc == FirstAfter(log, j, {":CHAN:SCAL?"})
             of == FirstAfter(log, j, {":CHAN:OFFS?"})
         IN  sc > j /\ of > sc /\ Quiet(log, j, of)
    ELSE LET k == LastBefore(log, j, PreambleVerbs)
         IN  k > 0 /\ Quiet(log, k, j)

\* position of the calibration query that comes first for the read at j
CalibrationStart(log, j) ==
    IF self.cls = "pacter" THEN j ELSE LastBefore(log, j, PreambleVerbs)

\* the read at position j belongs to the vertical autoscale loop of
\* Oscrigol.__call__: no :STOP has been written yet, the instrument runs
InAutoScaleLoop(log, j) ==
    /\ routine = "Oscrigol.__call__"
    /\ self.vAutoScale
    /\ VerbsIn(SubSeq(log, 1, j), {":STOP"}) = <<>>
    /\ LastRunStop(SubSeq(log, 1, j)) = ":RUN"

\* C15 as stated: for every data read, the calibration constants applied to
\* it are queried with the instrument stopped, in the same stopped acquisition
\* as the read: no :RUN and no acquisition-type or scale-changing command
\* lies between the calibration query and the data read.
C15_SameStoppedAcquisition ==
    (self.cls \in {"Oscrigol", "pacter"}) =>
        \A j \in DataReads(cmds) :
            /\ CalibratedInPlace(cmds, j)
            /\ StoppedAt(cmds, CalibrationStart(cmds, j))

\* C15, amended: no :RUN and no acquisition-type or scale-changing command
\* lies between a calibration query and the data read it is applied to; the
\* instrument is stopped from the one to the other, except in the vertical
\* autoscale loop of Oscrigol.__call__, whose reads are made while it runs.
C15_SameCycle ==
    (self.cls \in {"Oscrigol", "pacter"}) =>
        \A j \in DataReads(cmds) :
            /\ CalibratedInPlace(cmds, j)
            /\ (StoppedAt(cmds, CalibrationStart(cmds, j)) \/ InAutoScaleLoop(cmds, j))

C15_Witness ==
    /\ routine = "Oscrigol.__call__"
    /\ pc = "done"
    /\ self.vAutoScale
    /\ Cardinality(DataReads(cmds)) = 4
    /\ \E j \in DataReads(cmds) : InAutoScaleLoop(cmds, j)
    /\ \E j \in DataReads(cmds) : StoppedAt(cmds, CalibrationStart(cmds, j))

StartVerbs == { Upper(src) \o ".START" : src \in Sources }

StopVerbs == { Upper(src) \o ".STOP" : src \in Sources }

\* C16: in the spectrometer script, with source laser or led the START of
\* that source is written once, after SPEC.INTEG and before SPEC.READ?, and
\* whenever START was written the matching STOP has been written by the time
\* the serial session is closed, read timeouts included; with source ext
\* neither START nor STOP is written.
C16_SourceStopped ==
    (routine = "get_spectrum") =>
        LET started == VerbsIn(cmds, StartVerbs)
            stopped == VerbsIn(cmds, StopVerbs)
            order == VerbsIn(cmds, {"SPEC.INTEG", "SPEC.READ?"} \cup StartVerbs)
            start == Upper(loc.source) \o ".START"
            stop == Upper(loc.source) \o ".STOP"
        IN  IF loc.source = "ext"
            THEN started = <<>> /\ stopped = <<>>
            ELSE /\ started \in {<<>>, <<start>>}
                 /\ stopped \in {<<>>, <<stop>>}
                 /\ order \in { <<>>, <<"SPEC.INTEG">>, <<"SPEC.INTEG", start>>,
                                <<"SPEC.INTEG", start, "SPEC.READ?">> }
                 /\ (stopped # <<>>) => (started # <<>>)
                 /\ (started # <<>> /\ ~open) => (stopped = <<stop>>)

\* C17: in oscrigol_pacter.__call__, when the depth read back differs from
\* the depth requested, the depth query is the last command written: no
\* :STOP and no waveform command follows it, no capture repetition is made,
\* the instrument is left running, and the call returns the placeholder
\* triple (0, 0, 0) with the session closed.
C17_MismatchPath ==
    (routine = "pacter.__call__" /\ loc.check) =>
        /\ pc \in {"p_mismatch", "done"}
        /\ cmds # <<>> /\ cmds[Len(cmds)].verb = ":ACQ:MDEP?"
        /\ VerbsIn(cmds, {":STOP"} \cup DataVerbs) = <<>>
        /\ loc.i = 0 /\ loc.caps = <<>>
        /\ LastRunStop(cmds) = ":RUN" /\ inst.run = "RUN"
        /\ err = ""
        /\ (pc = "p_mismatch") => (open /\ result = NoResult)
        /\ (pc = "done") =>
              /\ ~open /\ sessions = 0
              /\ result = [kind |-> "placeholder", t |-> 0, v1 |-> 0, v2m |-> 0]

C17_Witness ==
    /\ routine = "pacter.__call__"
    /\ loc.check
    /\ pc = "done"
    /\ result.kind = "placeholder"
    /\ self.mdepth = 7000 /\ inst.mdepth # 7000
    /\ ~open

====
